---- MODULE Spec2Model ----
(***************************************************************************)
(* Repository + adapter-factory layer of repository-factory-pattern:       *)
(* BaseRepository (base.repository.ts), TransactionalBaseRepository,       *)
(* DatabaseAdapterFactory and the DatabaseDelegate contract they consume.  *)
(*                                                                         *)
(* Optional JavaScript values are sequences: <<>> is undefined, <<v>> is   *)
(* the value v.  An argument object is a function whose DOMAIN is the set  *)
(* of keys the object has.                                                 *)
(***************************************************************************)
EXTENDS Integers, Sequences, FiniteSets, TLC

\* ---------------------------------------------------------------- bounds
\* Largest identity the store's SERIAL column hands out in a run.
MaxId == 3
\* How many times a run lets the adapter factory be asked for a delegate.
MaxAdapterCalls == 2

\* ------------------------------------------------------- program constants
\* defaultLimit when the DEFAULT_LIMIT_TOKEN provider is absent.
DEFAULT_LIMIT == 20

\* ------------------------------------------------------------ input sets
Emails == {"a", "b", "c"}
Names == {"x", "y"}
\* Page sizes the wiring may configure (<<>>: no provider, so the default).
ConfiguredLimits == {<<>>, <<2>>}
\* Errors of the store that no argument explains (connection lost, timeout).
IOErrors == {"ECONN"}

UNDEF == <<>>
Some(v) == <<v>>
IsDef(o) == o # <<>>
Val(o) == o[1]
OptOf(S) == {UNDEF} \cup {Some(v) : v \in S}

\* ------------------------------------------------------------- entities
\* User{id, email unique, name}
Wheres ==
  {[name |-> n] : n \in Names} \cup {[email |-> e] : e \in Emails}
    \cup {[id |-> i] : i \in 1..MaxId}

Matches(r, w) == \A f \in DOMAIN w : f \in DOMAIN r /\ r[f] = w[f]

\* where of a delegate call: the key may be absent, or present and undefined
ArgWhere(args) ==
  IF "where" \in DOMAIN args /\ IsDef(args.where) THEN Val(args.where)
  ELSE <<>>

Matching(st, w) == {r \in st : Matches(r, w)}

RECURSIVE ById(_)
ById(S) ==
  IF S = {} THEN <<>>
  ELSE LET m == CHOOSE r \in S : \A q \in S : r.id <= q.id
       IN <<m>> \o ById(S \ {m})

Drop(s, n) == IF n >= Len(s) THEN <<>> ELSE SubSeq(s, n + 1, Len(s))
Take(s, n) == IF n >= Len(s) THEN s ELSE SubSeq(s, 1, n)
TakeLast(s, n) == IF n >= Len(s) THEN s ELSE SubSeq(s, Len(s) - n + 1, Len(s))
DropLast(s, n) == IF n >= Len(s) THEN <<>> ELSE SubSeq(s, 1, Len(s) - n)

\* ------------------------------------------------ the DatabaseDelegate
\* Error codes of the reference store client.
P2002 == "P2002"                    \* unique constraint violated
P2025 == "P2025"                    \* record to update or delete not found
ValidationError == "ValidationError"

NULL == <<>>
GetArg(args, k) == IF k \in DOMAIN args THEN args[k] ELSE UNDEF

UniqueFields == {"id", "email"}
IsUniqueWhere(w) == DOMAIN w \cap UniqueFields # {}
EmailsUnique(S) == \A r \in S, q \in S : r.email = q.email => r = q

Merge(r, d) == [f \in DOMAIN r |-> IF f \in DOMAIN d THEN d[f] ELSE r[f]]
NewRecord(id, d) == [id |-> id, email |-> d.email, name |-> d.name]

\* select: {field: true}; no select returns the whole record
Project(r, sel) ==
  IF IsDef(sel)
    THEN [f \in {g \in DOMAIN r : g \in DOMAIN Val(sel) /\ Val(sel)[g]} |-> r[f]]
    ELSE r
ProjectAll(s, sel) == [i \in 1..Len(s) |-> Project(s[i], sel)]

\* skip/take as the store client applies them: a negative take counts from
\* the end of the list
Window(list, skip, take) ==
  IF ~IsDef(take) THEN Drop(list, skip)
  ELSE IF Val(take) >= 0 THEN Take(Drop(list, skip), Val(take))
  ELSE TakeLast(DropLast(list, skip), 0 - Val(take))

Ok(v, st, nid) == [ok |-> TRUE, value |-> <<v>>, store |-> st, nextId |-> nid]
Fail(e, st, nid) == [ok |-> FALSE, error |-> e, store |-> st, nextId |-> nid]

RECURSIVE InsertAll(_, _, _)
InsertAll(st, nid, data) ==
  IF data = <<>> THEN st
  ELSE InsertAll(st \cup {NewRecord(nid, Head(data))}, nid + 1, Tail(data))

findUniqueD(args, st, nid) ==
  LET w == ArgWhere(args)
      m == Matching(st, w)
  IN IF ~IsUniqueWhere(w) THEN Fail(ValidationError, st, nid)
     ELSE IF m = {} THEN Ok(NULL, st, nid)
     ELSE Ok(Some(Project(CHOOSE r \in m : TRUE, GetArg(args, "select"))), st, nid)

\* OrderByCondition[]: each entry maps one field of the entity to 'asc' or
\* 'desc'. (The single-object form of the contract is the one-entry list.)
IsOrderByCondition(ob) ==
  \A i \in 1..Len(ob) :
    /\ Cardinality(DOMAIN ob[i]) = 1
    /\ DOMAIN ob[i] \subseteq {"id", "email", "name"}
    /\ \A f \in DOMAIN ob[i] : ob[i][f] \in {"asc", "desc"}

\* the store's collation of the values of a field
Rank(f, v) ==
  IF f = "id" THEN v
  ELSE CASE v = "a" -> 1 [] v = "b" -> 2 [] v = "c" -> 3
         [] v = "x" -> 1 [] v = "y" -> 2

\* r comes before q under the orderBy list ob; records that tie on every
\* entry come in id order
RECURSIVE Before(_, _, _)
Before(r, q, ob) ==
  IF ob = <<>> THEN r.id < q.id
  ELSE LET f == CHOOSE g \in DOMAIN Head(ob) : TRUE
           a == Rank(f, r[f])
           b == Rank(f, q[f])
       IN IF a = b THEN Before(r, q, Tail(ob))
          ELSE IF Head(ob)[f] = "asc" THEN a < b ELSE a > b

Sorted(S, ob) ==
  [i \in 1..Cardinality(S) |->
     CHOOSE r \in S : Cardinality({q \in S : Before(q, r, ob)}) = i - 1]

findFirstD(args, st, nid) ==
  LET ob == IF IsDef(GetArg(args, "orderBy")) THEN Val(GetArg(args, "orderBy")) ELSE <<>>
      skip == IF IsDef(GetArg(args, "skip")) THEN Val(GetArg(args, "skip")) ELSE 0
  IN IF skip < 0 \/ ~IsOrderByCondition(ob) THEN Fail(ValidationError, st, nid)
     ELSE LET win == Window(Sorted(Matching(st, ArgWhere(args)), ob), skip, Some(1))
          IN IF win = <<>> THEN Ok(NULL, st, nid)
             ELSE Ok(Some(Project(win[1], GetArg(args, "select"))), st, nid)

findManyD(args, st, nid) ==
  LET ob == IF IsDef(GetArg(args, "orderBy")) THEN Val(GetArg(args, "orderBy")) ELSE <<>>
      skip == IF IsDef(GetArg(args, "skip")) THEN Val(GetArg(args, "skip")) ELSE 0
  IN IF skip < 0 \/ ~IsOrderByCondition(ob) THEN Fail(ValidationError, st, nid)
     ELSE Ok(ProjectAll(Window(Sorted(Matching(st, ArgWhere(args)), ob),
                               skip, GetArg(args, "take")),
                        GetArg(args, "select")), st, nid)

\* a count that ignores its where
countDIgnoresWhere(args, st, nid) == Ok(Cardinality(st), st, nid)

countD(args, st, nid) == Ok(Cardinality(Matching(st, ArgWhere(args))), st, nid)

createD(args, st, nid) ==
  LET d == Val(args.data)
  IN IF \E r \in st : r.email = d.email THEN Fail(P2002, st, nid)
     ELSE Ok(NewRecord(nid, d), st \cup {NewRecord(nid, d)}, nid + 1)

createManyD(args, st, nid) ==
  LET data == Val(args.data)
      st2 == InsertAll(st, nid, data)
  IN IF Cardinality(st2) = Cardinality(st) + Len(data) /\ EmailsUnique(st2)
       THEN Ok([count |-> Len(data)], st2, nid + Len(data))
       ELSE Fail(P2002, st, nid)

updateD(args, st, nid) ==
  LET m == Matching(st, ArgWhere(args))
      r == CHOOSE q \in m : TRUE
      st2 == (st \ {r}) \cup {Merge(r, Val(args.data))}
  IN IF ~IsUniqueWhere(ArgWhere(args)) THEN Fail(ValidationError, st, nid)
     ELSE IF m = {} THEN Fail(P2025, st, nid)
     ELSE IF ~EmailsUnique(st2) THEN Fail(P2002, st, nid)
     ELSE Ok(Merge(r, Val(args.data)), st2, nid)

updateManyD(args, st, nid) ==
  LET m == Matching(st, ArgWhere(args))
      upd == {Merge(r, Val(args.data)) : r \in m}
      st2 == (st \ m) \cup upd
  IN IF Cardinality(st2) # Cardinality(st) \/ ~EmailsUnique(st2)
       THEN Fail(P2002, st, nid)
       ELSE Ok([count |-> Cardinality(m)], st2, nid)

upsertD(args, st, nid) ==
  LET m == Matching(st, ArgWhere(args))
  IN IF ~IsUniqueWhere(ArgWhere(args)) THEN Fail(ValidationError, st, nid)
     ELSE IF m = {}
       THEN createD([data |-> args.create], st, nid)
       ELSE updateD([where |-> args.where, data |-> args.update], st, nid)

deleteD(args, st, nid) ==
  LET m == Matching(st, ArgWhere(args))
      r == CHOOSE q \in m : TRUE
  IN IF ~IsUniqueWhere(ArgWhere(args)) THEN Fail(ValidationError, st, nid)
     ELSE IF m = {} THEN Fail(P2025, st, nid)
     ELSE Ok(r, st \ {r}, nid)

deleteManyD(args, st, nid) ==
  LET m == Matching(st, ArgWhere(args))
  IN Ok([count |-> Cardinality(m)], st \ m, nid)

\* What the store answers to one delegate call on the store st.
Answer(method, args, st, nid) ==
  CASE method = "findUnique" -> findUniqueD(args, st, nid)
    [] method = "findFirst" -> findFirstD(args, st, nid)
    [] method = "findMany" -> findManyD(args, st, nid)
    [] method = "count" -> countD(args, st, nid)
    [] method = "create" -> createD(args, st, nid)
    [] method = "createMany" -> createManyD(args, st, nid)
    [] method = "update" -> updateD(args, st, nid)
    [] method = "updateMany" -> updateManyD(args, st, nid)
    [] method = "upsert" -> upsertD(args, st, nid)
    [] method = "delete" -> deleteD(args, st, nid)
    [] method = "deleteMany" -> deleteManyD(args, st, nid)

\* Identities a call may draw from the SERIAL column.
IdsNeeded(method, args) ==
  CASE method \in {"create", "upsert"} -> 1
    [] method = "createMany" -> Len(Val(args.data))
    [] OTHER -> 0

\* ------------------------------------------------- DatabaseAdapterFactory
\* Names are sequences of characters, so that toLowerCase is computed.
UpperCase ==
  <<"A", "B", "C", "D", "E", "F", "G", "H", "I", "J", "K", "L", "M",
    "N", "O", "P", "Q", "R", "S", "T", "U", "V", "W", "X", "Y", "Z">>
LowerCase ==
  <<"a", "b", "c", "d", "e", "f", "g", "h", "i", "j", "k", "l", "m",
    "n", "o", "p", "q", "r", "s", "t", "u", "v", "w", "x", "y", "z">>

ToLowerChar(c) ==
  IF \E i \in 1..Len(UpperCase) : UpperCase[i] = c
    THEN LowerCase[CHOOSE i \in 1..Len(UpperCase) : UpperCase[i] = c]
    ELSE c

\* a lookup that keeps the case of the name
toLowerCaseKeepsCase(s) == s

toLowerCase(s) == [i \in 1..Len(s) |-> ToLowerChar(s[i])]

\* UserRepository.modelName
modelName == <<"U", "s", "e", "r">>

\* Members of the store client (PrismaService) by property key.
prismaService ==
  (<<"u", "s", "e", "r">> :> [kind |-> "delegate", model |-> "user"])
    @@ (<<"p", "o", "s", "t">> :> [kind |-> "delegate", model |-> "post"])
    @@ (<<"l", "o", "g", "g", "e", "r">> :> [kind |-> "object", model |-> "logger"])

\* obj[key]: undefined when the object has no such member
Member(obj, key) == IF key \in DOMAIN obj THEN Some(obj[key]) ELSE UNDEF

\* Object.keys(obj)
ObjectKeys(obj) == DOMAIN obj

\* typeof v === 'object' && v !== null
IsObject(v) == v.kind \in {"delegate", "object"}

UnknownModel == "UnknownModel"
UnsupportedOrm == "UnsupportedOrm"
TypeOrmNotImplemented == "TypeOrmNotImplemented"

Returned(v) == [ok |-> TRUE, value |-> v]
Thrown(e) == [ok |-> FALSE, error |-> e]

\* Errors carry what their message interpolates: the name asked for and the
\* names listed after it (undefined when the message lists none).
createPrismaAdapter(name) ==
  LET modelKey == toLowerCase(name)
      adapter == Member(prismaService, modelKey)
  IN IF ~IsDef(adapter)
       THEN Thrown([kind |-> UnknownModel, name |-> name,
                    listed |-> Some({k \in ObjectKeys(prismaService) :
                                       IsObject(prismaService[k])})])
       ELSE Returned(Val(adapter))

\* the adapter sketched in the comment of createTypeOrmAdapter: a delegate
\* for the entity
createTypeOrmAdapterSketched(name) == createPrismaAdapter(name)

createTypeOrmAdapter(name) ==
  Thrown([kind |-> TypeOrmNotImplemented, supported |-> {"prisma"}])

\* ORM_TYPE read as unset falls to the default branch of the switch
createAdapterNoDefault(name, orm) ==
  LET type == IF IsDef(orm) THEN Val(orm) ELSE ""
  IN CASE type = "prisma" -> createPrismaAdapter(name)
       [] type = "typeorm" -> createTypeOrmAdapter(name)
       [] OTHER -> Thrown([kind |-> UnsupportedOrm, requested |-> type,
                           supported |-> {"prisma", "typeorm"}])

\* orm: the configured ORM_TYPE (undefined when unset)
createAdapter(name, orm) ==
  LET type == IF IsDef(orm) /\ Val(orm) # "" THEN Val(orm) ELSE "prisma"
  IN CASE type = "prisma" -> createPrismaAdapter(name)
       [] type = "typeorm" -> createTypeOrmAdapter(name)
       [] OTHER -> Thrown([kind |-> UnsupportedOrm, requested |-> type,
                           supported |-> {"prisma", "typeorm"}])

createUserAdapter(orm) == createAdapter(<<"U", "s", "e", "r">>, orm)
createPostAdapter(orm) == createAdapter(<<"P", "o", "s", "t">>, orm)

\* ORM_TYPE settings a deployment may have.
OrmTypes == {UNDEF, Some("typeorm")}

\* --------------------------------------------------- PrismaAdapterFactory
\* (prisma-adapter.factory.ts; listsModels is FALSE for the copy of the class
\* in common/interface/base.repository.ts, whose message lists no names)
PrismaAdapterFactory_createAdapter(databaseClient, name, listsModels) ==
  LET modelKey == toLowerCase(name)
      adapter == Member(databaseClient, modelKey)
  IN IF ~IsDef(adapter)
       THEN Thrown([kind |-> UnknownModel, name |-> name,
                    listed |-> IF listsModels THEN Some(ObjectKeys(databaseClient))
                               ELSE UNDEF])
       ELSE Returned(Val(adapter))

\* return this.databaseClient.user / .post: undefined when there is none
PrismaAdapterFactory_createUserAdapter(databaseClient) ==
  Member(databaseClient, <<"u", "s", "e", "r">>)
PrismaAdapterFactory_createPostAdapter(databaseClient) ==
  Member(databaseClient, <<"p", "o", "s", "t">>)

\* --------------------------------------------------------- BaseRepository
\* the getter without the memo test
databaseEveryTime(db, orm) ==
  LET a == createAdapter(modelName, orm)
  IN IF a.ok
       THEN [ok |-> TRUE, delegate |-> a.value, db |-> Some(a.value), called |-> 1]
       ELSE [ok |-> FALSE, error |-> a.error, db |-> db, called |-> 1]

\* The `database` getter: resolves the delegate on first use and keeps it.
\* db is the _database field; called counts the createAdapter calls made.
database(db, orm) ==
  IF ~IsDef(db)
    THEN LET a == createAdapter(modelName, orm)
         IN IF a.ok
              THEN [ok |-> TRUE, delegate |-> a.value, db |-> Some(a.value), called |-> 1]
              ELSE [ok |-> FALSE, error |-> a.error, db |-> db, called |-> 1]
    ELSE [ok |-> TRUE, delegate |-> Val(db), db |-> db, called |-> 0]

\* options?.k
Opt(options, k) == IF IsDef(options) THEN Val(options)[k] ELSE UNDEF

NoOptions ==
  [where |-> UNDEF, include |-> UNDEF, select |-> UNDEF, orderBy |-> UNDEF,
   page |-> UNDEF, limit |-> UNDEF, skip |-> UNDEF, take |-> UNDEF]

\* a || b on numbers: 0 and undefined are falsy
Truthy(o) == IsDef(o) /\ Val(o) # 0
OrElse(o, d) == IF Truthy(o) THEN Val(o) ELSE d

\* skip and take copied by truthiness, the way the other four keys are
buildQueryArgsTruthy(options) ==
  LET keys ==
        {k \in {"where", "include", "select", "orderBy"} : IsDef(Opt(options, k))}
          \cup {k \in {"skip", "take"} : Truthy(Opt(options, k))}
  IN [k \in keys |-> Opt(options, k)]

buildQueryArgs(options) ==
  LET keys ==
        {k \in {"where", "include", "select", "orderBy"} : IsDef(Opt(options, k))}
          \cup {k \in {"skip", "take"} : Opt(options, k) # UNDEF}
  IN [k \in keys |-> Opt(options, k)]

Call(method, args) == [method |-> method, args |-> args]

\* Math.ceil(a / b) for b # 0
MathCeilDiv(a, b) ==
  IF b > 0 THEN 0 - ((0 - a) \div b) ELSE 0 - (a \div (0 - b))

\* ---- the delegate calls each repository method issues, in order
findById(id) == <<Call("findUnique", [where |-> Some([id |-> id])])>>

findOne(where) == <<Call("findFirst", [where |-> Some(where)])>>

findOneWithOptions(options) == <<Call("findFirst", buildQueryArgs(options))>>

findAll(options) == <<Call("findMany", buildQueryArgs(options))>>

findMany(where) ==
  <<Call("findMany", buildQueryArgs(Some([NoOptions EXCEPT !.where = Some(where)])))>>

findManyWithOptions(options) == <<Call("findMany", buildQueryArgs(options))>>

\* {...options}
Spread(options) == IF IsDef(options) THEN Val(options) ELSE NoOptions

PageOf(options) == OrElse(Opt(options, "page"), 1)
\* a page size written into the method in place of this.defaultLimit
LimitOfTen(options, dl) == OrElse(Opt(options, "limit"), 10)

LimitOf(options, dl) == OrElse(Opt(options, "limit"), dl)
\* the page number taken as the number of pages to skip
SkipOfPageNumber(options, dl) ==
  OrElse(Opt(options, "skip"), PageOf(options) * LimitOf(options, dl))

SkipOf(options, dl) ==
  OrElse(Opt(options, "skip"), (PageOf(options) - 1) * LimitOf(options, dl))

\* count without the caller's where
findAllPaginatedCountAll(options, dl) ==
  <<Call("findMany",
         buildQueryArgs(Some([Spread(options) EXCEPT
                                !.skip = Some(SkipOf(options, dl)),
                                !.take = Some(LimitOf(options, dl))]))),
    Call("count", [where |-> UNDEF])>>

\* dl: this.defaultLimit
findAllPaginated(options, dl) ==
  <<Call("findMany",
         buildQueryArgs(Some([Spread(options) EXCEPT
                                !.skip = Some(SkipOf(options, dl)),
                                !.take = Some(LimitOf(options, dl))]))),
    Call("count", [where |-> Opt(options, "where")])>>

\* Math.floor in place of Math.ceil
PaginatedResultFloor(options, dl, data, total) ==
  LET page == PageOf(options)
      limit == LimitOf(options, dl)
      totalPages == IF limit > 0 THEN total \div limit ELSE 0 - ((0 - total) \div (0 - limit))
  IN [data |-> data, total |-> total, page |-> page, limit |-> limit,
      totalPages |-> totalPages, hasNext |-> page < totalPages,
      hasPrevious |-> page > 1]

PaginatedResult(options, dl, data, total) ==
  LET page == PageOf(options)
      limit == LimitOf(options, dl)
      totalPages == MathCeilDiv(total, limit)
  IN [data |-> data, total |-> total, page |-> page, limit |-> limit,
      totalPages |-> totalPages, hasNext |-> page < totalPages,
      hasPrevious |-> page > 1]

\* count that drops its condition
countEverything(where) == <<Call("count", [where |-> UNDEF])>>

count(where) == <<Call("count", [where |-> where])>>

exists(id) ==
  <<Call("findUnique", [where |-> Some([id |-> id]), select |-> Some([id |-> TRUE])])>>

\* existsBy that fetches the whole record
existsByWholeRecord(where) == <<Call("findUnique", [where |-> Some(where)])>>

existsBy(where) ==
  <<Call("findUnique", [where |-> Some(where), select |-> Some([id |-> TRUE])])>>

create(data) == <<Call("create", [data |-> Some(data)])>>

createMany(data) == <<Call("createMany", [data |-> Some(data)])>>

update(id, data) ==
  <<Call("update", [where |-> Some([id |-> id]), data |-> Some(data)])>>

updateMany(where, data) ==
  <<Call("updateMany", [where |-> Some(where), data |-> Some(data)])>>

\* an upsert that only ever creates
upsertAlwaysCreates(where, cr, up) == <<Call("create", [data |-> Some(cr)])>>

upsert(where, cr, up) ==
  <<Call("upsert", [where |-> Some(where), create |-> Some(cr), update |-> Some(up)])>>

\* delete by way of deleteMany, which does not mind a missing record
deleteViaDeleteMany(id) == <<Call("deleteMany", [where |-> Some([id |-> id])])>>

delete(id) == <<Call("delete", [where |-> Some([id |-> id])])>>

deleteMany(where) == <<Call("deleteMany", [where |-> Some(where)])>>

\* UserRepository
findByEmail(email) == findOne([email |-> email])

refresh(entity) == findById(entity.id)

Calls(name, in, dl) ==
  CASE name = "findById" -> findById(in.id)
    [] name = "findOne" -> findOne(in.where)
    [] name = "findOneWithOptions" -> findOneWithOptions(in.options)
    [] name = "findAll" -> findAll(in.options)
    [] name = "findMany" -> findMany(in.where)
    [] name = "findManyWithOptions" -> findManyWithOptions(in.options)
    [] name = "findAllPaginated" -> findAllPaginated(in.options, dl)
    [] name = "count" -> count(in.where)
    [] name = "exists" -> exists(in.id)
    [] name = "existsBy" -> existsBy(in.where)
    [] name = "create" -> create(in.data)
    [] name = "createMany" -> createMany(in.data)
    [] name = "update" -> update(in.id, in.data)
    [] name = "updateMany" -> updateMany(in.where, in.data)
    [] name = "upsert" -> upsert(in.where, in.create, in.update)
    [] name = "delete" -> delete(in.id)
    [] name = "deleteMany" -> deleteMany(in.where)
    [] name = "refresh" -> refresh(in.entity)
    [] name = "findByEmail" -> findByEmail(in.email)
    [] name = "createUser" -> create(in.data)

\* ---- the value a method returns once its delegate calls have answered;
\* ans[k] is the value call k resolved with
Returns(name, in, dl, ans) ==
  CASE name \in {"exists", "existsBy"} -> ans[1] # NULL
    [] name = "createMany" -> [count |-> ans[1].count]
    [] name = "delete" -> UNDEF
    [] name = "findAllPaginated" ->
         PaginatedResult(in.options, dl, ans[1], ans[2])
    [] OTHER -> ans[1]

\* ------------------------------------------------------------------ state
VARIABLES
  store,              \* the User table: a set of records
  nextId,             \* next value of the SERIAL id column
  ormType,            \* configured ORM_TYPE
  defaultLimit,       \* BaseRepository.defaultLimit
  _database,          \* BaseRepository._database (memoized delegate)
  createAdapterCalls, \* how often adapterFactory.createAdapter was called
  ops                 \* per slot, the repository call made through it

vars == <<store, nextId, ormType, defaultLimit, _database, createAdapterCalls, ops>>

\* Slots in which a caller may have a repository call in progress.
AllSlots == {1, 2, 3}
\* the callers of the runs in which two callers act at once
TwoCallers == {1, 2}

Idle == [status |-> "idle", pending |-> {}]

\* A call whose delegate calls cs have been issued to the delegate d.
Running(name, in, cs, d) ==
  [name |-> name, in |-> in, status |-> "running", delegate |-> Some(d),
   calls |-> cs, pending |-> 1..Len(cs),
   answers |-> [k \in 1..Len(cs) |-> UNDEF],
   errors |-> [k \in 1..Len(cs) |-> UNDEF],
   at |-> [k \in 1..Len(cs) |-> UNDEF],
   left |-> [k \in 1..Len(cs) |-> UNDEF], first |-> UNDEF,
   result |-> UNDEF, error |-> UNDEF]

\* A call that failed before it reached the delegate.
Failed(name, in, e) ==
  [name |-> name, in |-> in, status |-> "failed", delegate |-> UNDEF,
   calls |-> <<>>, pending |-> {}, answers |-> <<>>, errors |-> <<>>,
   at |-> <<>>, left |-> <<>>, first |-> UNDEF, result |-> UNDEF,
   error |-> Some(e)]

\* a catch that wraps what the delegate threw
RejectsWrapped(op, e) == [op EXCEPT !.status = "failed", !.error = Some("RepositoryError")]

\* `await` of a rejected delegate promise: the method rejects with the same error
Rejects(op, e) == [op EXCEPT !.status = "failed", !.error = Some(e)]

\* ---- UserService
ConflictException == "ConflictException"

\* a createUser that has no catch
createUserRethrows(op) == op

\* createUser around the outcome op of `await this.userRepository.create`:
\* an error whose code is P2002 is replaced by ConflictException, any other
\* error is thrown again, a value is returned
createUser(op) ==
  IF /\ op.status = "failed"
     /\ IsDef(op.first)
     /\ op.errors[Val(op.first)] = Some(P2002)
    THEN [op EXCEPT !.error = Some(ConflictException)]
    ELSE op

\* every awaited delegate promise has resolved: the method returns
Resolves(op, dl) ==
  [op EXCEPT !.status = "ok",
             !.result = Some(Returns(op.name, op.in, dl,
                                     [k \in 1..Len(op.calls) |-> Val(op.answers[k])]))]

\* Delegate call k of op settles with the answer a, given on the store st.
Settle(op, k, a, st, dl) ==
  LET o1 == [op EXCEPT !.pending = @ \ {k},
                       !.answers[k] = IF a.ok THEN a.value ELSE UNDEF,
                       !.errors[k] = IF a.ok THEN UNDEF ELSE Some(a.error),
                       !.at[k] = Some(st),
                       !.left[k] = Some(a.store),
                       !.first = IF ~a.ok /\ op.first = UNDEF THEN Some(k) ELSE @]
      o2 == IF op.status # "running" THEN o1
            ELSE IF ~a.ok THEN Rejects(o1, a.error)
            ELSE IF \A j \in 1..Len(op.calls) : IsDef(o1.answers[j]) THEN Resolves(o1, dl)
            ELSE o1
  IN IF op.name = "createUser" THEN createUser(o2) ELSE o2

RECURSIVE SumIds(_)
SumIds(cs) ==
  IF cs = <<>> THEN 0
  ELSE IdsNeeded(Head(cs).method, Head(cs).args) + SumIds(Tail(cs))

\* identities the calls still pending in slot s may draw
Reserved(s) ==
  IF ops[s].status = "idle" THEN 0
  ELSE SumIds([k \in 1..Len(ops[s].calls) |->
                 IF k \in ops[s].pending THEN ops[s].calls[k]
                 ELSE Call("none", <<>>)])

RoomFor(n) == nextId + Reserved(1) + Reserved(2) + Reserved(3) + n <= MaxId + 1

\* ------------------------------------------- TransactionalBaseRepository
TypeError == "TypeError"

\* Accessor properties on the prototype chain of a repository object:
\* BaseRepository declares `database` with a getter and no setter.
PrototypeAccessors == [database |-> [get |-> TRUE, set |-> FALSE]]

\* Object.create(Object.getPrototypeOf(this)): no own properties
EmptyObject == [k \in {} |-> UNDEF]

\* obj[key] = v in class code (strict mode); obj holds the own data properties
Assign(obj, key, v) ==
  IF key \in DOMAIN obj THEN Returned([obj EXCEPT ![key] = v])
  ELSE IF key \in DOMAIN PrototypeAccessors
    THEN IF PrototypeAccessors[key].set THEN Returned(obj) ELSE Thrown(TypeError)
  ELSE Returned((key :> v) @@ obj)

\* The transaction handle: the client's model accessors, bound to the transaction.
TxClient ==
  [k \in {q \in DOMAIN prismaService : prismaService[q].kind = "delegate"} |->
     [kind |-> "delegate", model |-> prismaService[k].model, tx |-> TRUE]]

\* what a callback does with the repository it is given: it creates the
\* records of cb.data one after the other, then returns or throws
RECURSIVE RunCallback(_, _, _, _)
RunCallback(cb, k, st, nid) ==
  IF k > Len(cb.data)
    THEN IF cb.outcome = "throw"
           THEN [ok |-> FALSE, error |-> cb.error, store |-> st, nextId |-> nid]
           ELSE [ok |-> TRUE, value |-> cb.value, store |-> st, nextId |-> nid]
    ELSE LET a == createD([data |-> Some(cb.data[k])], st, nid)
         IN IF a.ok THEN RunCallback(cb, k + 1, a.store, a.nextId)
            ELSE [ok |-> FALSE, error |-> a.error, store |-> st, nextId |-> nid]

\* The function withTransaction hands to $transaction, run on the handle tx.
TransactionBody(tx, cb, dl, st, nid) ==
  LET a1 == Assign(EmptyObject, "database", Member(tx, toLowerCase(modelName)))
      a2 == Assign(a1.value, "modelName", modelName)
      a3 == Assign(a2.value, "defaultLimit", dl)
      r == RunCallback(cb, 1, st, nid)
  IN IF ~a1.ok
       THEN [ok |-> FALSE, error |-> a1.error, invoked |-> FALSE, repo |-> UNDEF,
             store |-> st, nextId |-> nid]
     ELSE IF ~a2.ok
       THEN [ok |-> FALSE, error |-> a2.error, invoked |-> FALSE, repo |-> UNDEF,
             store |-> st, nextId |-> nid]
     ELSE IF ~a3.ok
       THEN [ok |-> FALSE, error |-> a3.error, invoked |-> FALSE, repo |-> UNDEF,
             store |-> st, nextId |-> nid]
     ELSE IF r.ok
       THEN [ok |-> TRUE, value |-> r.value, invoked |-> TRUE, repo |-> Some(a3.value),
             store |-> r.store, nextId |-> r.nextId]
     ELSE [ok |-> FALSE, error |-> r.error, invoked |-> TRUE, repo |-> Some(a3.value),
           store |-> r.store, nextId |-> r.nextId]

\* A withTransaction call: $transaction has been called with the body.
Transacting(cb, st) ==
  [name |-> "withTransaction", in |-> [callback |-> cb], status |-> "running",
   delegate |-> UNDEF, calls |-> <<>>, pending |-> {}, answers |-> <<>>,
   errors |-> <<>>, at |-> <<>>, left |-> <<>>, first |-> UNDEF,
   result |-> UNDEF, error |-> UNDEF, phase |-> "begin", before |-> st,
   body |-> UNDEF]

\* ----------------------------------------------------------------- inputs
Ids == 1..MaxId
CreateDtos == [email : Emails, name : Names]
UpdateDtos == {[name |-> n] : n \in Names} \cup {[email |-> e] : e \in Emails}
NameUpdates == {[name |-> n] : n \in Names}
OptionWheres == {UNDEF, Some([name |-> "x"])}

OptionsOf(W, P, L, S, T) ==
  {Some([NoOptions EXCEPT !.where = w, !.page = p, !.limit = l,
                          !.skip = sk, !.take = t]) :
     w \in W, p \in OptOf(P), l \in OptOf(L), sk \in OptOf(S), t \in OptOf(T)}

\* query options of the pagination runs
PageOptions ==
  {UNDEF} \cup OptionsOf(OptionWheres, {0, 1, 2, -1}, {0, 1, 2, -1}, {0, 1, -1}, {0, 1})
QueryOptionsSet == {UNDEF} \cup OptionsOf(OptionWheres, {2}, {1}, {0, 1}, {0, 1})
\* query options that ask for an order: a SortOptions[] as QueryOptions types
\* it, and the OrderByCondition[] the method comments pass
OrderedOptions ==
  {Some([NoOptions EXCEPT !.orderBy = Some(ob), !.take = t]) :
     ob \in {<<[filter |-> "name", direction |-> "desc"]>>,
             <<[filter |-> "name", direction |-> "asc"],
               [filter |-> "email", direction |-> "desc"]>>,
             <<[name |-> "desc"]>>,
             <<[name |-> "asc"], [email |-> "desc"]>>},
     t \in {UNDEF, Some(2)}}
\* query options of the runs that also write
FewOptions == {UNDEF} \cup OptionsOf(OptionWheres, {2}, {1}, {-1}, {})

\* query options of the runs with two callers
ConcOptions == {UNDEF, Some([NoOptions EXCEPT !.where = Some([name |-> "y"])])}

\* callbacks handed to withTransaction
Callbacks ==
  {[data |-> d, outcome |-> o, value |-> "r", error |-> "Boom"] :
     d \in {<<>>, <<[email |-> "a", name |-> "x"]>>,
            <<[email |-> "a", name |-> "x"], [email |-> "b", name |-> "y"]>>},
     o \in {"return", "throw"}}

\* A table left by earlier runs, for the runs that only read.
SeedRecords ==
  {[id |-> 1, email |-> "a", name |-> "x"],
   [id |-> 2, email |-> "b", name |-> "y"],
   [id |-> 3, email |-> "c", name |-> "x"]}

\* ------------------------------------------------------------------- Init
Fresh ==
  /\ _database = UNDEF
  /\ createAdapterCalls = 0
  /\ ops = [s \in AllSlots |-> Idle]

ConfiguredLimit == {IF IsDef(c) THEN Val(c) ELSE DEFAULT_LIMIT : c \in ConfiguredLimits}

Init ==
  /\ store = {}
  /\ nextId = 1
  /\ ormType \in OrmTypes
  /\ defaultLimit = DEFAULT_LIMIT
  /\ Fresh

InitPage ==
  /\ store \in {{r \in SeedRecords : r.id <= n} : n \in 0..Cardinality(SeedRecords)}
  /\ nextId = Cardinality(SeedRecords) + 1
  /\ ormType = UNDEF
  /\ defaultLimit \in ConfiguredLimit
  /\ Fresh

\* ---------------------------------------------------------------- actions
\* An async repository method runs up to its first await: it reads
\* this.database and issues its delegate calls.
Invoke(s, name, in) ==
  LET g == database(_database, ormType)
      cs == Calls(name, in, defaultLimit)
  IN /\ ops[s].status = "idle"
     /\ createAdapterCalls + g.called <= MaxAdapterCalls
     /\ g.ok => RoomFor(SumIds(cs))
     /\ _database' = g.db
     /\ createAdapterCalls' = createAdapterCalls + g.called
     /\ ops' = [ops EXCEPT ![s] = IF g.ok THEN Running(name, in, cs, g.delegate)
                                  ELSE IF name = "createUser"
                                    THEN createUser(Failed(name, in, g.error))
                                  ELSE Failed(name, in, g.error)]
     /\ UNCHANGED <<store, nextId, ormType, defaultLimit>>

FindById(s, I) == \E id \in I : Invoke(s, "findById", [id |-> id])
FindOne(s) == \E w \in Wheres : Invoke(s, "findOne", [where |-> w])
FindOneWithOptions(s, O) ==
  \E o \in O : Invoke(s, "findOneWithOptions", [options |-> o])
FindAll(s, O) == \E o \in O : Invoke(s, "findAll", [options |-> o])
FindMany(s, W) == \E w \in W : Invoke(s, "findMany", [where |-> w])
FindManyWithOptions(s, O) ==
  \E o \in O : Invoke(s, "findManyWithOptions", [options |-> o])
FindAllPaginated(s, O) ==
  \E o \in O : Invoke(s, "findAllPaginated", [options |-> o])
Count(s, W) == \E w \in OptOf(W) : Invoke(s, "count", [where |-> w])
Exists(s) == \E id \in Ids : Invoke(s, "exists", [id |-> id])
ExistsBy(s) == \E w \in Wheres : Invoke(s, "existsBy", [where |-> w])
Create(s, D) == \E d \in D : Invoke(s, "create", [data |-> d])
CreateMany(s) ==
  \E data \in {<<d>> : d \in CreateDtos}
                \cup {<<[email |-> e1, name |-> "x"], [email |-> e2, name |-> "y"]>> :
                        e1 \in Emails, e2 \in Emails} :
    Invoke(s, "createMany", [data |-> data])
CreateUser(s) == \E d \in CreateDtos : Invoke(s, "createUser", [data |-> d])
FindByEmail(s) == \E e \in Emails : Invoke(s, "findByEmail", [email |-> e])
Update(s) ==
  \E id \in Ids, d \in UpdateDtos : Invoke(s, "update", [id |-> id, data |-> d])
UpdateMany(s) ==
  \E w \in Wheres, d \in UpdateDtos :
    Invoke(s, "updateMany", [where |-> w, data |-> d])
Upsert(s, W, E, U) ==
  \E w \in W, e \in E, u \in U :
    Invoke(s, "upsert", [where |-> w, create |-> [email |-> e, name |-> "x"],
                         update |-> u])
Delete(s) == \E id \in Ids : Invoke(s, "delete", [id |-> id])
DeleteMany(s) == \E w \in Wheres : Invoke(s, "deleteMany", [where |-> w])
Refresh(s) ==
  \E id \in Ids :
    Invoke(s, "refresh", [entity |-> [id |-> id, email |-> "a", name |-> "x"]])

\* The store executes one pending delegate call and its promise resolves or
\* rejects.
DelegateAnswers(s) ==
  \E k \in ops[s].pending :
    LET c == ops[s].calls[k]
        a == Answer(c.method, c.args, store, nextId)
    IN /\ store' = a.store
       /\ nextId' = a.nextId
       /\ ops' = [ops EXCEPT ![s] = Settle(@, k, a, store, defaultLimit)]
       /\ UNCHANGED <<ormType, defaultLimit, _database, createAdapterCalls>>

\* The store fails a pending delegate call for a reason of its own.
DelegateFails(s) ==
  \E k \in ops[s].pending, e \in IOErrors :
    /\ ops' = [ops EXCEPT ![s] = Settle(@, k, Fail(e, store, nextId), store,
                                         defaultLimit)]
    /\ UNCHANGED <<store, nextId, ormType, defaultLimit, _database,
                   createAdapterCalls>>

\* The caller has the outcome of its call and the slot is free again.
Done(s) ==
  /\ ops[s].status \in {"ok", "failed"}
  /\ ops[s].pending = {}
  /\ ops' = [ops EXCEPT ![s] = Idle]
  /\ UNCHANGED <<store, nextId, ormType, defaultLimit, _database, createAdapterCalls>>

\* withTransaction(callback): calls $transaction on the store client.
WithTransaction(s) ==
  \E cb \in Callbacks :
    /\ ops[s].status = "idle"
    /\ RoomFor(Len(cb.data))
    /\ ops' = [ops EXCEPT ![s] = Transacting(cb, store)]
    /\ UNCHANGED <<store, nextId, ormType, defaultLimit, _database, createAdapterCalls>>

\* The client opens the transaction, or fails to.
TxBegin(s) ==
  /\ ops[s].status = "running"
  /\ ops[s].name = "withTransaction"
  /\ ops[s].phase = "begin"
  /\ \/ ops' = [ops EXCEPT ![s].phase = "body"]
     \/ \E e \in IOErrors : ops' = [ops EXCEPT ![s] = Rejects(@, e)]
  /\ UNCHANGED <<store, nextId, ormType, defaultLimit, _database, createAdapterCalls>>

\* a body that binds the transaction handle on `this`, not on the clone
TxBodyBindsThis(s) ==
  /\ ops[s].status = "running"
  /\ ops[s].name = "withTransaction"
  /\ ops[s].phase = "body"
  /\ ops' = [ops EXCEPT ![s].phase = "end",
                        ![s].body = Some(TransactionBody(TxClient, ops[s].in.callback,
                                                         defaultLimit, store, nextId))]
  /\ _database' = Member(TxClient, toLowerCase(modelName))
  /\ UNCHANGED <<store, nextId, ormType, defaultLimit, createAdapterCalls>>

\* The client runs the body on the transaction handle.
TxBody(s) ==
  /\ ops[s].status = "running"
  /\ ops[s].name = "withTransaction"
  /\ ops[s].phase = "body"
  /\ ops' = [ops EXCEPT ![s].phase = "end",
                        ![s].body = Some(TransactionBody(TxClient, ops[s].in.callback,
                                                         defaultLimit, store, nextId))]
  /\ UNCHANGED <<store, nextId, ormType, defaultLimit, _database, createAdapterCalls>>

\* The client commits when the body returned and rolls back when it threw;
\* $transaction settles accordingly and withTransaction with it.
TxEnd(s) ==
  /\ ops[s].status = "running"
  /\ ops[s].name = "withTransaction"
  /\ ops[s].phase = "end"
  /\ LET b == Val(ops[s].body)
     IN IF b.ok
          THEN /\ store' = b.store
               /\ nextId' = b.nextId
               /\ ops' = [ops EXCEPT ![s].status = "ok", ![s].result = Some(b.value)]
          ELSE /\ UNCHANGED <<store, nextId>>
               /\ ops' = [ops EXCEPT ![s] = Rejects(@, b.error)]
  /\ UNCHANGED <<ormType, defaultLimit, _database, createAdapterCalls>>

\* One caller at a time, every method.
Next ==
  \/ FindById(1, Ids) \/ FindOne(1) \/ FindOneWithOptions(1, FewOptions)
  \/ FindAll(1, FewOptions) \/ FindMany(1, Wheres)
  \/ FindManyWithOptions(1, FewOptions)
  \/ FindAllPaginated(1, FewOptions)
  \/ Count(1, Wheres) \/ Exists(1) \/ ExistsBy(1)
  \/ Create(1, CreateDtos) \/ CreateMany(1) \/ Update(1) \/ UpdateMany(1)
  \/ Upsert(1, Wheres, Emails, NameUpdates)
  \/ Delete(1) \/ DeleteMany(1) \/ Refresh(1)
  \/ WithTransaction(1) \/ TxBegin(1) \/ TxBody(1) \/ TxEnd(1)
  \/ DelegateAnswers(1) \/ DelegateFails(1) \/ Done(1)

Spec == Init /\ [][Next]_vars

\* The reading methods that take query options, on a table that does not change.
NextPage ==
  \/ FindOneWithOptions(1, QueryOptionsSet \cup OrderedOptions)
  \/ FindAll(1, QueryOptionsSet \cup OrderedOptions)
  \/ FindMany(1, {[name |-> "x"], [email |-> "b"]})
  \/ FindManyWithOptions(1, QueryOptionsSet \cup OrderedOptions)
  \/ FindAllPaginated(1, PageOptions \cup OrderedOptions)
  \/ DelegateAnswers(1) \/ DelegateFails(1) \/ Done(1)

SpecPage == InitPage /\ [][NextPage]_vars

\* Two callers at once on the same repository instance.
NextConc ==
  \E s \in TwoCallers :
    \/ FindById(s, {1}) \/ Create(s, {[email |-> "a", name |-> "x"]})
    \/ FindAllPaginated(s, ConcOptions)
    \/ DelegateAnswers(s) \/ DelegateFails(s) \/ Done(s)

SpecConc == Init /\ [][NextConc]_vars

\* Page 1 and page 2 of one page size, and findAll with the limit of two
\* pages, asked for by three callers on a table that does not change.
PageSizes == {1, 2, 3}

NextPaging ==
  \/ \E p \in {1, 2} :
       FindAllPaginated(p, {Some([NoOptions EXCEPT !.page = Some(p), !.limit = Some(n)]) :
                              n \in PageSizes})
  \/ FindAll(3, {Some([NoOptions EXCEPT !.limit = Some(2 * n)]) : n \in PageSizes})
  \/ \E s \in AllSlots : DelegateAnswers(s) \/ DelegateFails(s) \/ Done(s)

SpecPaging == InitPage /\ [][NextPaging]_vars

\* Callers that use what an earlier call returned: two upserts; a count,
\* then findMany or createMany, then a count.
SeqWheres == {[email |-> "a"], [email |-> "b"], [id |-> 1], [name |-> "x"]}
\* where conditions of count and findMany, the empty condition {} included
CountWheres == {<<>>, [email |-> "b"], [name |-> "x"]}
SeqUpdates == {[name |-> "y"], [email |-> "b"]}

InitSeq ==
  /\ store \in {{r \in SeedRecords : r.id <= n} : n \in 0..2}
  /\ nextId = Cardinality(store) + 1
  /\ ormType = UNDEF
  /\ defaultLimit = DEFAULT_LIMIT
  /\ Fresh

NextSeq ==
  \/ Upsert(1, SeqWheres, {"a", "b"}, SeqUpdates) \/ Count(1, CountWheres)
  \/ Upsert(2, SeqWheres, {"a", "b"}, SeqUpdates) \/ FindMany(2, CountWheres)
  \/ CreateMany(2)
  \/ Count(3, {})
  \/ \E s \in AllSlots : DelegateAnswers(s) \/ DelegateFails(s)

SpecSeq == InitSeq /\ [][NextSeq]_vars

\* Two callers of UserService.createUser and a caller of
\* UserRepository.findByEmail.
NextUser ==
  \/ CreateUser(1) \/ FindByEmail(2) \/ CreateUser(3)
  \/ \E s \in AllSlots : DelegateAnswers(s) \/ DelegateFails(s)

SpecUser == InitSeq /\ [][NextUser]_vars

\* ------------------------------------------- calls on the adapter factories
\* Entity names callers ask the factories for.
EntityNames ==
  {<<"U", "s", "e", "r">>, <<"u", "s", "e", "r">>, <<"U", "S", "E", "R">>,
   <<"P", "o", "s", "t">>, <<"p", "o", "s", "t">>, <<"T", "a", "g">>,
   <<"L", "o", "g", "g", "e", "r">>}

\* Store clients a PrismaAdapterFactory may be constructed with
\* (databaseClient: any): the service itself, a client generated from a schema
\* with the User model only, and a client with no model.
DatabaseClients ==
  {[k \in K |-> prismaService[k]] :
     K \in {DOMAIN prismaService, {<<"u", "s", "e", "r">>}, {}}}

\* The factory objects: the configuration-driven factory over PrismaService,
\* and the two PrismaAdapterFactory classes over a client.
Factories ==
  {[class |-> "DatabaseAdapterFactory", databaseClient |-> prismaService,
    listsModels |-> TRUE]}
    \cup {[class |-> "PrismaAdapterFactory", databaseClient |-> c, listsModels |-> l] :
            c \in DatabaseClients, l \in BOOLEAN}

\* ORM_TYPE settings, the unsupported ones included.
FactoryOrmTypes ==
  {UNDEF, Some(""), Some("prisma"), Some("typeorm"), Some("mongoose")}

\* what a factory method hands its caller: the value returned (undefined
\* included) or the error thrown
Handed(a) == IF a.ok THEN Returned(Some(a.value)) ELSE a

FactoryCall(name, in, r) ==
  [name |-> name, in |-> in, status |-> IF r.ok THEN "ok" ELSE "failed",
   delegate |-> UNDEF, calls |-> <<>>, pending |-> {}, answers |-> <<>>,
   errors |-> <<>>, at |-> <<>>, left |-> <<>>, first |-> UNDEF,
   result |-> IF r.ok THEN r.value ELSE UNDEF,
   error |-> IF r.ok THEN UNDEF ELSE Some(r.error)]

InitFactory ==
  /\ store = {}
  /\ nextId = 1
  /\ ormType \in FactoryOrmTypes
  /\ defaultLimit = DEFAULT_LIMIT
  /\ Fresh

CreateAdapter(s) ==
  \E f \in Factories, n \in EntityNames :
    /\ ops[s].status = "idle"
    /\ ops' = [ops EXCEPT ![s] =
         FactoryCall("createAdapter", [factory |-> f, modelName |-> n],
           Handed(IF f.class = "DatabaseAdapterFactory"
                    THEN createAdapter(n, ormType)
                    ELSE PrismaAdapterFactory_createAdapter(f.databaseClient, n,
                                                            f.listsModels)))]
    /\ UNCHANGED <<store, nextId, ormType, defaultLimit, _database, createAdapterCalls>>

CreateUserAdapter(s) ==
  \E f \in Factories :
    /\ ops[s].status = "idle"
    /\ ops' = [ops EXCEPT ![s] =
         FactoryCall("createUserAdapter", [factory |-> f, modelName |-> <<"U", "s", "e", "r">>],
           IF f.class = "DatabaseAdapterFactory"
             THEN Handed(createUserAdapter(ormType))
             ELSE Returned(PrismaAdapterFactory_createUserAdapter(f.databaseClient)))]
    /\ UNCHANGED <<store, nextId, ormType, defaultLimit, _database, createAdapterCalls>>

CreatePostAdapter(s) ==
  \E f \in Factories :
    /\ ops[s].status = "idle"
    /\ ops' = [ops EXCEPT ![s] =
         FactoryCall("createPostAdapter", [factory |-> f, modelName |-> <<"P", "o", "s", "t">>],
           IF f.class = "DatabaseAdapterFactory"
             THEN Handed(createPostAdapter(ormType))
             ELSE Returned(PrismaAdapterFactory_createPostAdapter(f.databaseClient)))]
    /\ UNCHANGED <<store, nextId, ormType, defaultLimit, _database, createAdapterCalls>>

\* Two callers of the factories.
NextFactory ==
  \E s \in TwoCallers :
    \/ CreateAdapter(s) \/ CreateUserAdapter(s) \/ CreatePostAdapter(s) \/ Done(s)

SpecFactory == InitFactory /\ [][NextFactory]_vars

\* ================================================================ claims
IsCall(s, name) == ops[s].status # "idle" /\ ops[s].name = name
Issued(s, name) == IsCall(s, name) /\ ops[s].calls # <<>>
Returned1(name) == IsCall(1, name) /\ ops[1].status = "ok"
GivenWhere(options) ==
  IF IsDef(Opt(options, "where")) THEN Val(Opt(options, "where")) ELSE <<>>

\* C1 (as claimed): findAllPaginated passes findMany skip = (page-1)*limit and
\* take = limit, except that a skip or take the caller supplies (any value
\* >= 0, 0 included) replaces the computed skip or take.
C1_ExplicitSkipTakeOverride ==
  Issued(1, "findAllPaginated") =>
    LET o == ops[1].in.options
        args == ops[1].calls[1].args
        page == PageOf(o)
        limit == LimitOf(o, defaultLimit)
        skipGiven == IsDef(Opt(o, "skip")) /\ Val(Opt(o, "skip")) >= 0
        takeGiven == IsDef(Opt(o, "take")) /\ Val(Opt(o, "take")) >= 0
    IN /\ GetArg(args, "skip") =
            IF skipGiven THEN Opt(o, "skip") ELSE Some((page - 1) * limit)
       /\ GetArg(args, "take") = IF takeGiven THEN Opt(o, "take") ELSE Some(limit)

\* C2 (as claimed): findAll and findManyWithOptions given page and/or limit and
\* no skip/take call findMany with skip = (page-1)*limit and take = limit, and
\* return at most limit records.
C2_FindAllAppliesPageLimit ==
  \A name \in {"findAll", "findManyWithOptions"} :
    Issued(1, name) =>
      LET o == ops[1].in.options
          args == ops[1].calls[1].args
          page == IF IsDef(Opt(o, "page")) THEN Val(Opt(o, "page")) ELSE 1
          limit == IF IsDef(Opt(o, "limit")) THEN Val(Opt(o, "limit")) ELSE defaultLimit
      IN (/\ IsDef(Opt(o, "page")) \/ IsDef(Opt(o, "limit"))
          /\ ~IsDef(Opt(o, "skip"))
          /\ ~IsDef(Opt(o, "take")))
           => /\ GetArg(args, "skip") = Some((page - 1) * limit)
              /\ GetArg(args, "take") = Some(limit)
              /\ ops[1].status = "ok" => Len(Val(ops[1].result)) <= limit

\* C3: every PaginatedResult of findAllPaginated has totalPages =
\* ceil(total/limit) (the least integer not below total/limit), hasNext =
\* (page < totalPages) and hasPrevious = (page > 1), total being what the
\* delegate's count returned and limit the take findMany was given.
C3_PaginationArithmetic ==
  Returned1("findAllPaginated") =>
    LET r == Val(ops[1].result)
        tp == r.totalPages
    IN /\ r.total = Val(ops[1].answers[2])
       /\ Some(r.limit) = ops[1].calls[1].args.take
       /\ r.limit > 0 => tp * r.limit >= r.total /\ (tp - 1) * r.limit < r.total
       /\ r.limit < 0 => tp * r.limit <= r.total /\ (tp - 1) * r.limit > r.total
       /\ r.limit # 0
       /\ r.hasNext = (r.page < tp)
       /\ r.hasPrevious = (r.page > 1)

\* C3 witness: page 2 of 3 records by 2 has returned: 2 pages, no next page.
C3_Witness ==
  /\ Returned1("findAllPaginated")
  /\ Val(ops[1].result).total = 3
  /\ Val(ops[1].result).limit = 2
  /\ Val(ops[1].result).page = 2
  /\ Val(ops[1].result).totalPages = 2
  /\ ~Val(ops[1].result).hasNext
  /\ Val(ops[1].result).hasPrevious

\* C4: on a table nobody writes to, the total of findAllPaginated is the number
\* of records matching options.where (all records without a where), whatever
\* page, limit, skip and take are, and count and findMany get the same where.
C4_TotalIsMatchCount ==
  /\ Issued(1, "findAllPaginated") =>
       ArgWhere(ops[1].calls[1].args) = GivenWhere(ops[1].in.options)
         /\ ArgWhere(ops[1].calls[2].args) = GivenWhere(ops[1].in.options)
  /\ Returned1("findAllPaginated") =>
       Val(ops[1].result).total
         = Cardinality({r \in store : Matches(r, GivenWhere(ops[1].in.options))})

\* C4 witness: a where that leaves a record out, and a window that leaves a
\* matching record out: total is still the 2 matching records.
C4_Witness ==
  /\ Returned1("findAllPaginated")
  /\ IsDef(Opt(ops[1].in.options, "where"))
  /\ Cardinality(store) = 3
  /\ Val(ops[1].result).total = 2
  /\ Len(Val(ops[1].result).data) = 1

\* C5 (as claimed): findAllPaginated with a caller-supplied limit <= 0 fails
\* and returns no PaginatedResult.
C5_NonPositiveLimitRejected ==
  (/\ IsCall(1, "findAllPaginated")
   /\ IsDef(Opt(ops[1].in.options, "limit"))
   /\ Val(Opt(ops[1].in.options, "limit")) <= 0)
    => ops[1].status # "ok"

BodyRan(s) == IsCall(s, "withTransaction") /\ IsDef(ops[s].body)
Settled(s) == ops[s].status \in {"ok", "failed"}
Writes(cb) == {cb.data[k] : k \in 1..Len(cb.data)}

\* C6 (as claimed): withTransaction invokes the callback with a clone of the
\* repository whose delegate is the transaction handle's accessor for the
\* same entity.
C6_CallbackGetsTransactionClone ==
  BodyRan(1) =>
    LET b == Val(ops[1].body)
    IN /\ b.invoked
       /\ IsDef(b.repo)
       /\ "database" \in DOMAIN Val(b.repo)
       /\ Val(b.repo)["database"] = Member(TxClient, toLowerCase(modelName))

\* C7 (as claimed): when the callback writes through the clone and then fails
\* with error e, the table is afterwards what it was before withTransaction
\* and withTransaction fails with that same e.
C7_RollbackPropagatesCallbackError ==
  (/\ BodyRan(1)
   /\ Settled(1)
   /\ ops[1].in.callback.outcome = "throw"
   /\ ops[1].in.callback.data # <<>>)
    => /\ ops[1].status = "failed"
       /\ ops[1].error = Some(ops[1].in.callback.error)
       /\ store = ops[1].before

\* C8 (as claimed): when the callback returns r, its writes are committed and
\* withTransaction returns r.
C8_CommitReturnsCallbackValue ==
  (/\ BodyRan(1)
   /\ Settled(1)
   /\ ops[1].in.callback.outcome = "return"
   /\ ops[1].in.callback.data # <<>>
   /\ \A d \in Writes(ops[1].in.callback) :
        ~\E r \in ops[1].before : r.email = d.email)
    => /\ ops[1].status = "ok"
       /\ ops[1].result = Some(ops[1].in.callback.value)
       /\ \A d \in Writes(ops[1].in.callback) :
            \E r \in store : r.email = d.email /\ r.name = d.name

Starting(s) == ops[s].status = "idle" /\ ops'[s].status # "idle"

\* C9: createAdapter is not called when the repository is constructed; a call
\* of it happens only as a repository method starts while no delegate is
\* memoized; once one is memoized it is never called again nor replaced, and
\* every method started afterwards, also one started while another is still
\* in progress, uses that delegate.
C9_DelegateResolvedOnce ==
  /\ (createAdapterCalls = 0 /\ _database = UNDEF)
  /\ [][/\ createAdapterCalls' # createAdapterCalls
             => /\ _database = UNDEF
                /\ createAdapterCalls' = createAdapterCalls + 1
                /\ \E s \in AllSlots : Starting(s)
        /\ IsDef(_database)
             => /\ _database' = _database
                /\ createAdapterCalls' = createAdapterCalls
        /\ \A s \in AllSlots :
             Starting(s) =>
               /\ _database = UNDEF => createAdapterCalls' = createAdapterCalls + 1
               /\ IsDef(ops'[s].delegate) => ops'[s].delegate = _database'
               /\ IsDef(_database) => ops'[s].delegate = _database]_vars
  /\ [](\A s \in AllSlots :
          (ops[s].status # "idle" /\ IsDef(ops[s].delegate))
            => /\ ops[s].delegate = _database
               /\ createAdapterCalls = 1)

\* C9 witness: two methods in progress at once on the one delegate, resolved once.
C9_Witness ==
  /\ ops[1].status = "running"
  /\ ops[2].status = "running"
  /\ ops[1].pending # {}
  /\ ops[2].pending # {}
  /\ createAdapterCalls = 1
  /\ ops[1].delegate = ops[2].delegate

\* delegate methods a repository method calls
Delegated(name) ==
  CASE name \in {"findById", "exists", "existsBy", "refresh"} -> <<"findUnique">>
    [] name \in {"findOne", "findOneWithOptions"} -> <<"findFirst">>
    [] name \in {"findAll", "findMany", "findManyWithOptions"} -> <<"findMany">>
    [] name = "findAllPaginated" -> <<"findMany", "count">>
    [] OTHER -> <<name>>

\* C10: a repository method whose delegate call fails with e fails with that
\* same e and calls the delegate no further; a method that succeeds has made
\* exactly one delegate call, findAllPaginated exactly one findMany and one
\* count.  (findAllPaginated issues both calls before either settles: it fails
\* with the error of the call that fails first.)
C10_DelegateFailurePassesThrough ==
  \A s \in AllSlots :
    (ops[s].status # "idle" /\ ops[s].name # "withTransaction" /\ IsDef(ops[s].delegate))
      => LET op == ops[s]
         IN /\ [k \in 1..Len(op.calls) |-> op.calls[k].method] = Delegated(op.name)
            /\ op.status = "failed"
                 <=> \E k \in 1..Len(op.calls) : IsDef(op.errors[k])
            /\ op.status = "failed"
                 => /\ IsDef(op.first)
                    /\ op.error = op.errors[Val(op.first)]
                    /\ op.result = UNDEF
            /\ op.status = "ok"
                 => /\ op.pending = {}
                    /\ \A k \in 1..Len(op.calls) : IsDef(op.answers[k])
                    /\ op.error = UNDEF

\* C10 witness: a write the store refused for a duplicate email has failed
\* with the store's error.
C10_Witness ==
  /\ IsCall(1, "create")
  /\ ops[1].status = "failed"
  /\ Len(ops[1].calls) = 1
  /\ ops[1].error = Some(P2002)

\* ------------------------------------------------ adapter factory claims
FactoryCalled(s, name) == ops[s].status \in {"ok", "failed"} /\ ops[s].name = name

\* the entity name has a binding in the factory's client: a model delegate
\* under the name, whatever its case
Bound(f, n) ==
  \E k \in DOMAIN f.databaseClient :
    /\ f.databaseClient[k].kind = "delegate"
    /\ Len(k) = Len(n)
    /\ \A i \in 1..Len(k) :
         \/ k[i] = n[i]
         \/ \E j \in 1..Len(UpperCase) :
              {k[i], n[i]} = {UpperCase[j], LowerCase[j]}

KnownEntities(f) ==
  {k \in DOMAIN f.databaseClient : f.databaseClient[k].kind = "delegate"}

\* the configured backend is the prisma one
PrismaBackend(f) ==
  f.class = "DatabaseAdapterFactory" =>
    (ormType = UNDEF \/ ormType \in {Some(""), Some("prisma")})

\* C11 (as claimed): in every factory, createAdapter(name) for a name without
\* a binding fails with the unknown-entity error, whose message lists the
\* known entity names.
C11_UnknownEntityListsKnownNames ==
  \A s \in AllSlots :
    (/\ FactoryCalled(s, "createAdapter")
     /\ PrismaBackend(ops[s].in.factory)
     /\ ~Bound(ops[s].in.factory, ops[s].in.modelName))
      => /\ ops[s].status = "failed"
         /\ Val(ops[s].error).kind = UnknownModel
         /\ IsDef(Val(ops[s].error).listed)
         /\ KnownEntities(ops[s].in.factory) \subseteq Val(Val(ops[s].error).listed)

\* slots 1 and 2 hold the outcomes of two calls on the same factory object
SameFactory == ops[1].in.factory = ops[2].in.factory

\* C12 (as claimed): on every factory and client, createUserAdapter() and
\* createAdapter("User"), and createPostAdapter() and createAdapter("Post"),
\* have the same outcome: the same delegate, or the same error.
C12_ShortcutsAreSugar ==
  \A short \in {"createUserAdapter", "createPostAdapter"} :
    (/\ FactoryCalled(1, short)
     /\ FactoryCalled(2, "createAdapter")
     /\ SameFactory
     /\ ops[2].in.modelName = ops[1].in.modelName)
      => /\ ops[1].status = ops[2].status
         /\ ops[1].result = ops[2].result
         /\ ops[1].error = ops[2].error

\* two names that differ at most in the case of their letters
SameUpToCase(a, b) ==
  /\ Len(a) = Len(b)
  /\ \A i \in 1..Len(a) :
       \/ a[i] = b[i]
       \/ \E j \in 1..Len(UpperCase) : {a[i], b[i]} = {UpperCase[j], LowerCase[j]}

\* C13: createAdapter called on one factory with two names that differ only
\* in letter case returns the same object for both, the client's own member
\* under the lower-cased name, or fails for both.
C13_NameResolutionIgnoresCase ==
  (/\ FactoryCalled(1, "createAdapter")
   /\ FactoryCalled(2, "createAdapter")
   /\ SameFactory
   /\ SameUpToCase(ops[1].in.modelName, ops[2].in.modelName))
    => /\ ops[1].status = ops[2].status
       /\ ops[1].result = ops[2].result
       /\ ops[1].status = "ok" =>
            ops[1].result
              = Member(ops[1].in.factory.databaseClient,
                       CHOOSE k \in DOMAIN ops[1].in.factory.databaseClient :
                         SameUpToCase(k, ops[1].in.modelName))

\* C13 witness: "USER" and "User" resolved to the one user delegate.
C13_Witness ==
  /\ FactoryCalled(1, "createAdapter")
  /\ FactoryCalled(2, "createAdapter")
  /\ SameFactory
  /\ ops[1].in.modelName = <<"U", "S", "E", "R">>
  /\ ops[2].in.modelName = <<"U", "s", "e", "r">>
  /\ ops[1].status = "ok"
  /\ ops[1].result = Some(prismaService[<<"u", "s", "e", "r">>])
  /\ ops[2].result = ops[1].result

\* C14: DatabaseAdapterFactory with an ORM_TYPE other than prisma and typeorm
\* fails, for every entity name and through every method, with the error that
\* names the configured type and the supported types prisma and typeorm, and
\* hands out no delegate; with ORM_TYPE unset or empty it answers as the prisma
\* backend does: the client's member under the lower-cased name, or the
\* unknown-model error.
C14_UnsupportedOrmTypeRejected ==
  \A s \in AllSlots :
    (/\ ops[s].status \in {"ok", "failed"}
     /\ ops[s].name \in {"createAdapter", "createUserAdapter", "createPostAdapter"}
     /\ ops[s].in.factory.class = "DatabaseAdapterFactory")
      => /\ (IsDef(ormType) /\ Val(ormType) \notin {"", "prisma", "typeorm"})
              => /\ ops[s].status = "failed"
                 /\ ops[s].result = UNDEF
                 /\ Val(ops[s].error).kind = UnsupportedOrm
                 /\ Val(ops[s].error).requested = Val(ormType)
                 /\ Val(ops[s].error).supported = {"prisma", "typeorm"}
         /\ (ormType = UNDEF \/ ormType = Some(""))
              => LET key == toLowerCase(ops[s].in.modelName)
                 IN IF key \in DOMAIN prismaService
                      THEN /\ ops[s].status = "ok"
                           /\ ops[s].result = Some(prismaService[key])
                      ELSE /\ ops[s].status = "failed"
                           /\ Val(ops[s].error).kind = UnknownModel

\* C14 witness: ORM_TYPE=mongoose, and createUserAdapter has failed naming it.
C14_Witness ==
  /\ ormType = Some("mongoose")
  /\ FactoryCalled(1, "createUserAdapter")
  /\ ops[1].in.factory.class = "DatabaseAdapterFactory"
  /\ ops[1].status = "failed"
  /\ Val(ops[1].error).kind = UnsupportedOrm
  /\ Val(ops[1].error).requested = "mongoose"

\* --------------------------------------------- BaseRepository claims (2)
\* the snapshot (table contents) that call k of the call in slot s was
\* answered on
SnapshotOf(s, k) == Val(ops[s].at[k])

\* C15: findAllPaginated issues findMany and count together as it starts,
\* before it awaits either, and the store answers them in either order, each
\* on the table as it is then; when both were answered on the same table,
\* total is the number of records matching where in the table data came from
\* and data is that table's window.  (That a write between the two answers
\* makes total and data disagree is the witness.)
C15_PaginatedReadsAreUnordered ==
  /\ [][\A s \in AllSlots :
          (Starting(s) /\ ops'[s].name = "findAllPaginated" /\ IsDef(ops'[s].delegate))
            => /\ Len(ops'[s].calls) = 2
               /\ ops'[s].calls[1].method = "findMany"
               /\ ops'[s].calls[2].method = "count"
               /\ ops'[s].pending = {1, 2}]_vars
  /\ [](\A s \in AllSlots :
          (/\ IsCall(s, "findAllPaginated")
           /\ ops[s].status = "ok"
           /\ SnapshotOf(s, 1) = SnapshotOf(s, 2))
            => LET w == GivenWhere(ops[s].in.options)
                   r == Val(ops[s].result)
               IN /\ r.total = Cardinality(Matching(SnapshotOf(s, 1), w))
                  /\ r.data = ById(Matching(SnapshotOf(s, 1), w))
                  /\ Len(r.data) = r.total)

\* C15 witness: findMany was answered on the empty table, another caller's
\* create committed, then count was answered: no data, total 1.
C15_Witness ==
  /\ IsCall(1, "findAllPaginated")
  /\ ops[1].status = "ok"
  /\ SnapshotOf(1, 1) # SnapshotOf(1, 2)
  /\ Val(ops[1].result).data = <<>>
  /\ Val(ops[1].result).total = 1
  /\ Val(ops[1].result).total
       # Cardinality(Matching(SnapshotOf(1, 1), GivenWhere(ops[1].in.options)))

\* C16: on a table of M records that does not change, with M <= 2N:
\* the data of findAllPaginated({page: 1, limit: N}) and of
\* findAllPaginated({page: 2, limit: N}) have no record in common, page 1
\* followed by page 2 is the first 2N records of findAll({limit: 2N}), and
\* page 1 has hasNext exactly when M > N.
C16_PagesPartitionTheTable ==
  (/\ Returned1("findAllPaginated")
   /\ IsCall(2, "findAllPaginated") /\ ops[2].status = "ok"
   /\ IsCall(3, "findAll") /\ ops[3].status = "ok"
   /\ Opt(ops[2].in.options, "limit") = Opt(ops[1].in.options, "limit")
   /\ Val(Opt(ops[3].in.options, "limit")) = 2 * Val(Opt(ops[1].in.options, "limit"))
   /\ Cardinality(store) <= 2 * Val(Opt(ops[1].in.options, "limit")))
    => LET N == Val(Opt(ops[1].in.options, "limit"))
           p1 == Val(ops[1].result)
           p2 == Val(ops[2].result)
           all == Val(ops[3].result)
       IN /\ \A i \in 1..Len(p1.data), j \in 1..Len(p2.data) : p1.data[i] # p2.data[j]
          /\ p1.data \o p2.data = Take(all, 2 * N)
          /\ p1.hasNext = (Cardinality(store) > N)

\* C16 witness: 3 records by pages of 2: two records, then one, and a next
\* page after the first.
C16_Witness ==
  /\ Returned1("findAllPaginated")
  /\ IsCall(2, "findAllPaginated") /\ ops[2].status = "ok"
  /\ IsCall(3, "findAll") /\ ops[3].status = "ok"
  /\ Opt(ops[1].in.options, "limit") = Some(2)
  /\ Opt(ops[2].in.options, "limit") = Some(2)
  /\ Opt(ops[3].in.options, "limit") = Some(4)
  /\ Cardinality(store) = 3
  /\ Len(Val(ops[1].result).data) = 2
  /\ Len(Val(ops[2].result).data) = 1
  /\ Val(ops[1].result).hasNext
  /\ Len(Val(ops[3].result)) = 3

LeftBy(s, k) == Val(ops[s].left[k])

\* the store answered every delegate call of the call in slot s (none was
\* lost to a failure of the connection)
StoreAnswered(s) ==
  /\ ops[s].status \in {"ok", "failed"}
  /\ IsDef(ops[s].delegate)
  /\ ops[s].pending = {}
  /\ \A k \in 1..Len(ops[s].calls) :
       ~(IsDef(ops[s].errors[k]) /\ Val(ops[s].errors[k]) \in IOErrors)

\* slots 1 and 2 hold two upserts with the same arguments, the first answered
\* on a table without a record matching where, the second on the table the
\* first left
UpsertedTwice ==
  /\ IsCall(1, "upsert") /\ StoreAnswered(1)
  /\ IsCall(2, "upsert") /\ StoreAnswered(2)
  /\ ops[1].in = ops[2].in
  /\ Matching(SnapshotOf(1, 1), ops[1].in.where) = {}
  /\ SnapshotOf(2, 1) = LeftBy(1, 1)

\* C17 (as claimed): two upserts in sequence with the same where (a selector
\* by a unique field, as the delegate's upsert takes), none matching at first:
\* the first creates from the create payload, the second updates that
\* record, and exactly one record matches where afterwards.
C17_UpsertTwiceAsClaimed ==
  (UpsertedTwice /\ IsUniqueWhere(ops[1].in.where))
    => /\ ops[1].status = "ok"
       /\ ops[2].status = "ok"
       /\ Val(ops[2].result) = Merge(Val(ops[1].result), ops[1].in.update)
       /\ Cardinality(Matching(LeftBy(2, 1), ops[1].in.where)) = 1

\* C17 (amended): the same, for a where that selects by a unique field which
\* the create payload sets to the same value and the update payload leaves
\* alone; and every upsert is one delegate upsert call given where, create
\* and update as they came.
C17_UpsertCreatesThenUpdates ==
  /\ \A s \in AllSlots :
       Issued(s, "upsert")
         => ops[s].calls
              = <<Call("upsert", [where |-> Some(ops[s].in.where),
                                  create |-> Some(ops[s].in.create),
                                  update |-> Some(ops[s].in.update)])>>
  /\ (/\ UpsertedTwice
      /\ IsUniqueWhere(ops[1].in.where)
      /\ DOMAIN ops[1].in.where \subseteq UniqueFields
      /\ \A f \in DOMAIN ops[1].in.where :
           /\ f \in DOMAIN ops[1].in.create
           /\ ops[1].in.create[f] = ops[1].in.where[f]
           /\ f \notin DOMAIN ops[1].in.update)
       => LET w == ops[1].in.where
              r1 == Val(ops[1].result)
              r2 == Val(ops[2].result)
          IN /\ ops[1].status = "ok"
             /\ r1.email = ops[1].in.create.email
             /\ r1.name = ops[1].in.create.name
             /\ \A q \in SnapshotOf(1, 1) : q.id # r1.id
             /\ LeftBy(1, 1) = SnapshotOf(1, 1) \cup {r1}
             /\ ops[2].status = "ok"
             /\ r2 = Merge(r1, ops[1].in.update)
             /\ LeftBy(2, 1) = (LeftBy(1, 1) \ {r1}) \cup {r2}
             /\ Matching(LeftBy(2, 1), w) = {r2}

\* C17 witness: upsert by email b, twice, next to another record: created
\* with name x, then renamed y.
C17_Witness ==
  /\ UpsertedTwice
  /\ ops[1].in.where = [email |-> "b"]
  /\ ops[1].in.create.email = "b"
  /\ ops[1].in.update = [name |-> "y"]
  /\ SnapshotOf(1, 1) # {}
  /\ Val(ops[1].result).name = "x"
  /\ Val(ops[2].result).name = "y"
  /\ Val(ops[2].result).id = Val(ops[1].result).id
  /\ Cardinality(LeftBy(2, 1)) = 2

\* C18: deleteMany(where) answered on a table without a record matching
\* where returns {count: 0} and leaves the table as it was; delete(id)
\* answered on a table without that id fails with the store's not-found error
\* and leaves the table as it was; delete(id) answered on a table with that id
\* removes that record and no other, and returns nothing.
C18_DeleteOutcomes ==
  \A s \in AllSlots :
    /\ (IsCall(s, "deleteMany") /\ StoreAnswered(s)
          /\ Matching(SnapshotOf(s, 1), ops[s].in.where) = {})
         => /\ ops[s].status = "ok"
            /\ ops[s].result = Some([count |-> 0])
            /\ ops[s].error = UNDEF
            /\ LeftBy(s, 1) = SnapshotOf(s, 1)
    /\ (IsCall(s, "delete") /\ StoreAnswered(s))
         => LET m == {r \in SnapshotOf(s, 1) : r.id = ops[s].in.id}
            IN IF m = {}
                 THEN /\ ops[s].status = "failed"
                      /\ ops[s].error = Some(P2025)
                      /\ LeftBy(s, 1) = SnapshotOf(s, 1)
                 ELSE /\ ops[s].status = "ok"
                      /\ ops[s].result = Some(UNDEF)
                      /\ Cardinality(m) = 1
                      /\ LeftBy(s, 1) = SnapshotOf(s, 1) \ m

\* C18 witness: delete(2) has removed record 2 of two records and returned
\* nothing.
C18_Witness ==
  /\ IsCall(1, "delete") /\ StoreAnswered(1)
  /\ ops[1].in.id = 2
  /\ ops[1].status = "ok"
  /\ ops[1].result = Some(UNDEF)
  /\ Cardinality(SnapshotOf(1, 1)) = 2
  /\ {r.id : r \in store} = {1}

\* the condition count was called with ({} when it was called without one)
CountWhere(s) == IF IsDef(ops[s].in.where) THEN Val(ops[s].in.where) ELSE <<>>

\* C19: count(where) and findMany(where) with the same condition (none
\* included), answered on the same table: count is the length of findMany's
\* list.  count(), then createMany of k records that succeeds on the table
\* count saw, then count() on the table createMany left: createMany returned
\* {count: k} and the second count is the first plus k.
C19_CountAgreesWithFindMany ==
  /\ (/\ IsCall(1, "count") /\ ops[1].status = "ok"
      /\ IsCall(2, "findMany") /\ ops[2].status = "ok"
      /\ CountWhere(1) = ops[2].in.where
      /\ SnapshotOf(1, 1) = SnapshotOf(2, 1))
       => Val(ops[1].result) = Len(Val(ops[2].result))
  /\ (/\ IsCall(1, "count") /\ ops[1].status = "ok" /\ ops[1].in.where = UNDEF
      /\ IsCall(2, "createMany") /\ ops[2].status = "ok"
      /\ IsCall(3, "count") /\ ops[3].status = "ok" /\ ops[3].in.where = UNDEF
      /\ SnapshotOf(2, 1) = SnapshotOf(1, 1)
      /\ SnapshotOf(3, 1) = LeftBy(2, 1))
       => /\ Val(ops[2].result) = [count |-> Len(ops[2].in.data)]
          /\ Val(ops[3].result) = Val(ops[1].result) + Len(ops[2].in.data)

\* C19 witness: count() was 1, createMany of 2 records returned {count: 2},
\* count() is 3.
C19_Witness ==
  /\ IsCall(1, "count") /\ ops[1].status = "ok" /\ ops[1].in.where = UNDEF
  /\ IsCall(2, "createMany") /\ ops[2].status = "ok"
  /\ IsCall(3, "count") /\ ops[3].status = "ok"
  /\ SnapshotOf(2, 1) = SnapshotOf(1, 1)
  /\ SnapshotOf(3, 1) = LeftBy(2, 1)
  /\ Val(ops[1].result) = 1
  /\ Val(ops[2].result) = [count |-> 2]
  /\ Val(ops[3].result) = 3

\* exists and existsBy are one findUnique for the id field only, and leave
\* the table as it is
ExistsIsOneLookup(s, w) ==
  /\ ops[s].calls = <<Call("findUnique", [where |-> Some(w),
                                          select |-> Some([id |-> TRUE])])>>
  /\ StoreAnswered(s) => LeftBy(s, 1) = SnapshotOf(s, 1)

C21_DataWithinLimit ==
  Returned1("findAllPaginated") =>
    Len(Val(ops[1].result).data) <= Val(ops[1].result).limit

\* C22: findAllPaginated called without a limit gives findMany the
\* repository's default limit as take and reports it as limit, the default
\* being 20 unless the wiring provides one; called with no options it asks for
\* skip 0, take the default limit and no where, counts without a where, and
\* reports page 1.
C22_DefaultLimitAndNoOptions ==
  /\ defaultLimit \in {IF IsDef(c) THEN Val(c) ELSE 20 : c \in ConfiguredLimits}
  /\ (Issued(1, "findAllPaginated") /\ ~IsDef(Opt(ops[1].in.options, "limit")))
       => /\ GetArg(ops[1].calls[1].args, "take") = Some(defaultLimit)
          /\ ops[1].status = "ok" => Val(ops[1].result).limit = defaultLimit
  /\ (Issued(1, "findAllPaginated") /\ ops[1].in.options = UNDEF)
       => /\ ops[1].calls[1].args = [skip |-> Some(0), take |-> Some(defaultLimit)]
          /\ ops[1].calls[2].args = [where |-> UNDEF]
          /\ ops[1].status = "ok"
               => /\ Val(ops[1].result).page = 1
                  /\ Val(ops[1].result).total = Cardinality(store)
                  /\ Val(ops[1].result).data = Take(ById(store), defaultLimit)

\* C22 witness: no options, no configured default: all 3 records as page 1
\* by 20.
C22_Witness ==
  /\ Returned1("findAllPaginated")
  /\ ops[1].in.options = UNDEF
  /\ defaultLimit = 20
  /\ Val(ops[1].result).limit = 20
  /\ Val(ops[1].result).page = 1
  /\ Len(Val(ops[1].result).data) = 3

\* C27 (as claimed): in every PaginatedResult the skip findMany was given is
\* (page-1)*limit of the reported page and limit; hasPrevious is false only
\* when the window starts at the first matching record, and hasNext is true
\* exactly when matching records lie beyond the window.
C27_PageDescribesWindow ==
  Returned1("findAllPaginated") =>
    LET r == Val(ops[1].result)
        skip == Val(GetArg(ops[1].calls[1].args, "skip"))
        take == Val(GetArg(ops[1].calls[1].args, "take"))
    IN /\ skip = (r.page - 1) * r.limit
       /\ ~r.hasPrevious => skip = 0
       /\ r.hasNext = (r.total > skip + take)

\* C28 (as claimed): whatever integers page, limit and skip are, findMany is
\* given skip >= 0 and take >= 1, and a returned result has page >= 1 and
\* totalPages >= 0.
C28_WindowArgumentsInRange ==
  /\ Issued(1, "findAllPaginated")
       => /\ Val(GetArg(ops[1].calls[1].args, "skip")) >= 0
          /\ Val(GetArg(ops[1].calls[1].args, "take")) >= 1
  /\ Returned1("findAllPaginated")
       => /\ Val(ops[1].result).page >= 1
          /\ Val(ops[1].result).totalPages >= 0

\* what the caller of a reading method supplied as query options
Supplied(s) ==
  IF ops[s].name = "findMany"
    THEN Some([NoOptions EXCEPT !.where = Some(ops[s].in.where)])
    ELSE ops[s].in.options

QueryReads == {"findAll", "findMany", "findManyWithOptions", "findOneWithOptions"}

\* C24: the arguments findAll, findMany, findManyWithOptions and
\* findOneWithOptions hand to the delegate have no key besides where, include,
\* select, orderBy, skip and take; each key present carries the value the
\* caller supplied, never undefined, and each of the six the caller supplied
\* is present; page and limit are never passed on; a skip or take of 0 is
\* passed on as 0.
C24_OnlySuppliedKeysReachDelegate ==
  \A name \in QueryReads :
    Issued(1, name) =>
      LET o == Supplied(1)
          args == ops[1].calls[1].args
          six == {"where", "include", "select", "orderBy", "skip", "take"}
      IN /\ Len(ops[1].calls) = 1
         /\ DOMAIN args \subseteq six
         /\ \A k \in DOMAIN args : IsDef(args[k]) /\ args[k] = Opt(o, k)
         /\ \A k \in six : IsDef(Opt(o, k)) => k \in DOMAIN args
         /\ \A k \in {"skip", "take"} :
              Opt(o, k) = Some(0) => GetArg(args, k) = Some(0)

\* C24 witness: findAll given page 2, limit 1, skip 0 and take 0 has issued
\* findMany with skip 0 and take 0 and nothing else.
C24_Witness ==
  /\ Issued(1, "findAll")
  /\ IsDef(ops[1].in.options)
  /\ Opt(ops[1].in.options, "page") = Some(2)
  /\ Opt(ops[1].in.options, "limit") = Some(1)
  /\ ops[1].calls[1].args = [skip |-> Some(0), take |-> Some(0)]

\* the delegate contract's form of an orderBy given as (field, direction) pairs
AsOrderByCondition(ob) ==
  [i \in 1..Len(ob) |-> [f \in {ob[i].filter} |-> ob[i].direction]]

InSortOptions(o) ==
  /\ IsDef(Opt(o, "orderBy"))
  /\ \A i \in 1..Len(Val(Opt(o, "orderBy"))) :
       DOMAIN Val(Opt(o, "orderBy"))[i] = {"filter", "direction"}

\* C25 (as claimed): an orderBy given as a list of (field, direction) pairs
\* reaches the delegate as the list, in the same order, of entries mapping the
\* field to the direction, and once the store has answered the records are
\* returned in that order.
C25_OrderByInDelegateForm ==
  \A name \in {"findAll", "findManyWithOptions"} :
    (Issued(1, name) /\ InSortOptions(ops[1].in.options)) =>
      LET ob == AsOrderByCondition(Val(Opt(ops[1].in.options, "orderBy")))
      IN /\ GetArg(ops[1].calls[1].args, "orderBy") = Some(ob)
         /\ ops[1].status # "failed" \/ ops[1].error \in OptOf(IOErrors)
         /\ ops[1].status = "ok" =>
              Val(ops[1].result) =
                Window(Sorted(store, ob), 0, Opt(ops[1].in.options, "take"))

\* ------------------------------------------------- factory claims (2)
FactoryMethods == {"createAdapter", "createUserAdapter", "createPostAdapter"}

\* the call in slot s was made on the configuration-driven factory with
\* ORM_TYPE 'typeorm'
OnTypeOrm(s) ==
  /\ ops[s].status \in {"ok", "failed"}
  /\ ops[s].name \in FactoryMethods
  /\ ops[s].in.factory.class = "DatabaseAdapterFactory"
  /\ ormType = Some("typeorm")

C29_OnlyEntitiesResolve ==
  \A s \in AllSlots :
    (FactoryCalled(s, "createAdapter") /\ PrismaBackend(ops[s].in.factory)) =>
      LET f == ops[s].in.factory
          n == ops[s].in.modelName
      IN /\ ops[s].status = "ok"
              => /\ toLowerCase(n) \in KnownEntities(f)
                 /\ ops[s].result = Some(f.databaseClient[toLowerCase(n)])
         /\ toLowerCase(n) \notin KnownEntities(f)
              => /\ ops[s].status = "failed"
                 /\ Val(ops[s].error).kind = UnknownModel
         /\ n \in KnownEntities(f)
              => /\ ops[s].status = "ok"
                 /\ ops[s].result = Some(f.databaseClient[n])

\* ------------------------------------- TransactionalBaseRepository claims (2)
\* slot s holds a withTransaction call, in progress or settled
InTransaction(s) == ops[s].status # "idle" /\ ops[s].name = "withTransaction"

\* the delegate the factory binds to the repository's entity outside of any
\* transaction
AmbientDelegate == prismaService[toLowerCase(modelName)]

\* C30: no step of a withTransaction call, from its start to its outcome
\* being taken, changes the repository's memoized delegate or default limit,
\* whether the call fails or not; and the delegate a method of the repository
\* runs on, before and after a withTransaction, is the ambient delegate, never
\* an accessor of a transaction handle.
C30_OriginalRepositoryUntouched ==
  [][/\ (InTransaction(1) \/ InTransaction(1)')
          => /\ _database' = _database
             /\ defaultLimit' = defaultLimit
     /\ IsDef(_database') => Val(_database') = AmbientDelegate
     /\ (ops'[1].status # "idle" /\ IsDef(ops'[1].delegate))
          => Val(ops'[1].delegate) = AmbientDelegate]_vars

\* C30 witness: a withTransaction on a repository whose delegate was
\* memoized by an earlier call has failed, and the memoized delegate is still
\* the ambient one.
C30_Witness ==
  /\ InTransaction(1)
  /\ ops[1].status = "failed"
  /\ Writes(ops[1].in.callback) # {}
  /\ createAdapterCalls = 1
  /\ _database = Some(AmbientDelegate)

\* ---------------------------------------------------- UserService claims
\* the store has answered the create of the createUser in slot s
CreateAnswered(s) ==
  /\ IsCall(s, "createUser")
  /\ IsDef(ops[s].delegate)
  /\ IsDef(ops[s].at[1])

\* C23: createUser(userData) whose email is taken when the store executes the
\* create fails with ConflictException, the store's error being P2002, and
\* the table stays as it was, with one record of that email; a create that
\* fails for any other reason makes createUser fail with that same error; and
\* when the create succeeds createUser returns the record created from
\* userData, which a findByEmail of that email answered afterwards returns.
C23_CreateUserOutcomes ==
  /\ EmailsUnique(store)
  /\ \A s \in {1, 3} :
       CreateAnswered(s) =>
         LET d == ops[s].in.data
             taken == {r \in SnapshotOf(s, 1) : r.email = d.email}
         IN /\ (taken # {} /\ StoreAnswered(s))
                 => /\ ops[s].errors[1] = Some(P2002)
                    /\ ops[s].status = "failed"
                    /\ ops[s].error = Some(ConflictException)
                    /\ LeftBy(s, 1) = SnapshotOf(s, 1)
                    /\ Cardinality({r \in store : r.email = d.email}) = 1
            /\ (IsDef(ops[s].errors[1]) /\ ops[s].errors[1] # Some(P2002))
                 => /\ ops[s].status = "failed"
                    /\ ops[s].error = ops[s].errors[1]
            /\ (taken = {} /\ StoreAnswered(s))
                 => /\ ops[s].status = "ok"
                    /\ Val(ops[s].result).email = d.email
                    /\ Val(ops[s].result).name = d.name
                    /\ LeftBy(s, 1) = SnapshotOf(s, 1) \cup {Val(ops[s].result)}
                    /\ (/\ IsCall(2, "findByEmail")
                        /\ ops[2].in.email = d.email
                        /\ StoreAnswered(2)
                        /\ Val(ops[s].result) \in SnapshotOf(2, 1))
                         => ops[2].result = Some(ops[s].result)

\* C23 witness: createUser of an email that was free has returned the new
\* user, findByEmail of that email has returned the same record, and a second
\* createUser of the email has failed with ConflictException.
C23_Witness ==
  /\ Returned1("createUser")
  /\ IsCall(2, "findByEmail")
  /\ ops[2].status = "ok"
  /\ ops[2].result = Some(ops[1].result)
  /\ IsCall(3, "createUser")
  /\ ops[3].in.data.email = ops[1].in.data.email
  /\ ops[3].status = "failed"
  /\ ops[3].error = Some(ConflictException)
  /\ Cardinality({r \in store : r.email = ops[1].in.data.email}) = 1

====
